---- MODULE Spec2Model ----
(***************************************************************************)
(* A model of server.js: the helpers parseInstallString and cleanText, the *)
(* /api/suggest handler and the /api/analyze handler (candidate            *)
(* extraction, sequential detail loop, keyword frequency map, difficulty   *)
(* heuristic, response assembly and the outer catch).                      *)
(*                                                                         *)
(* Strings are sequences of one-character strings.  A value that may be    *)
(* null in the code is a record [null |-> BOOLEAN, str |-> sequence].      *)
(* Numbers that may be fractional are exact rationals num/den.             *)
(***************************************************************************)
EXTENDS Integers, Sequences, FiniteSets, TLC

VARIABLES
    \* parseInstallString(s): its argument and what it returned
    installInput, installResult,
    \* cleanText(s), applied once and then to its own output
    cleanInput, cleanOnce, cleanTwice,
    \* GET /api/suggest: position, req.query.q, txt, the responses sent
    suggestPc, q, txt, suggestSent,
    \* the callback of suggestions.map (lines 286-291) on one entry
    avgInstalls, score, difficulty,
    \* GET /api/analyze: position, keyword, limit, the loaded search page,
    \* packages, results, the loop index i (from 1), the browser, the open
    \* pages, the console.warn lines, the err of the outer catch, the calls of
    \* browser.close() in that catch and whether one threw, the responses sent
    pc, keyword, limit, searchHtml, packages, results, i, browser,
    searchPageOpen, detailPages, warned, err, closeCalls, closeErr, sent

installVars == <<installInput, installResult>>

cleanVars == <<cleanInput, cleanOnce, cleanTwice>>

suggestVars == <<suggestPc, q, txt, suggestSent>>

diffVars == <<avgInstalls, score, difficulty>>

analyzeVars ==
    <<pc, keyword, limit, searchHtml, packages, results, i, browser,
      searchPageOpen, detailPages, warned, err, closeCalls, closeErr, sent>>

vars == <<installVars, cleanVars, suggestVars, diffVars, analyzeVars>>

----------------------------------------------------------------------------
\* Bounds of the model.

MaxInstallLen == 4

MaxCleanLen == 5

MaxTxtLen == 6

MaxLinks == 4

MaxLimit == 2

MaxWords == 2

MaxRecords == 2

MaxScore == 104

MaxCount == 3

MaxCandidates == 3

----------------------------------------------------------------------------
\* Generic helpers.

Range(s) == {s[k] : k \in 1..Len(s)}

Min(a, b) == IF a <= b THEN a ELSE b

Max(a, b) == IF a >= b THEN a ELSE b

SeqsUpTo(S, n) == UNION {[1..k -> S] : k \in 0..n}

RECURSIVE Filter(_, _)
Filter(s, keep) ==
    IF s = <<>> THEN <<>>
    ELSE IF Head(s) \in keep THEN <<Head(s)>> \o Filter(Tail(s), keep)
    ELSE Filter(Tail(s), keep)

\* The longest prefix of s whose characters are all in keep.
RECURSIVE TakeWhile(_, _)
TakeWhile(s, keep) ==
    IF s = <<>> \/ Head(s) \notin keep THEN <<>>
    ELSE <<Head(s)>> \o TakeWhile(Tail(s), keep)

RECURSIVE DropWhile(_, _)
DropWhile(s, drop) ==
    IF s = <<>> \/ Head(s) \notin drop THEN s
    ELSE DropWhile(Tail(s), drop)

RECURSIVE Reverse(_)
Reverse(s) == IF s = <<>> THEN <<>> ELSE Reverse(Tail(s)) \o <<Head(s)>>

\* String.prototype.replace(c, ''): only the first occurrence goes.
RECURSIVE RemoveFirst(_, _)
RemoveFirst(s, c) ==
    IF s = <<>> THEN <<>>
    ELSE IF Head(s) = c THEN Tail(s)
    ELSE <<Head(s)>> \o RemoveFirst(Tail(s), c)

Null == [null |-> TRUE, str |-> <<>>]

Str(s) == [null |-> FALSE, str |-> s]

\* JavaScript truthiness of a nullable string: null and '' are falsy.
Truthy(v) == ~v.null /\ v.str # <<>>

----------------------------------------------------------------------------
\* Character classes.

Digits == {"0", "1", "2", "3", "4", "5", "6", "7", "8", "9"}

DigitVal(c) ==
    CASE c = "0" -> 0 [] c = "1" -> 1 [] c = "2" -> 2 [] c = "3" -> 3
      [] c = "4" -> 4 [] c = "5" -> 5 [] c = "6" -> 6 [] c = "7" -> 7
      [] c = "8" -> 8 [] c = "9" -> 9

UpperChars ==
    <<"A", "B", "C", "D", "E", "F", "G", "H", "I", "J", "K", "L", "M",
      "N", "O", "P", "Q", "R", "S", "T", "U", "V", "W", "X", "Y", "Z">>

LowerChars ==
    <<"a", "b", "c", "d", "e", "f", "g", "h", "i", "j", "k", "l", "m",
      "n", "o", "p", "q", "r", "s", "t", "u", "v", "w", "x", "y", "z">>

toUpperCase(c) ==
    IF c \in Range(LowerChars)
    THEN UpperChars[CHOOSE k \in 1..26 : LowerChars[k] = c]
    ELSE c

toLowerCase(c) ==
    IF c \in Range(UpperChars)
    THEN LowerChars[CHOOSE k \in 1..26 : UpperChars[k] = c]
    ELSE c

MapChars(s, Op(_)) == [k \in 1..Len(s) |-> Op(s[k])]

\* What the regular expression class \s and String.prototype.trim treat as
\* white space, among the characters of the model: U+FEFF is white space in
\* ECMAScript, U+200B..U+200D are not.
WhiteSpace == {" ", "\t", "\n", "U+FEFF"}

\* The class [U+200B-U+200D, U+FEFF] that cleanText removes.
ZeroWidth == {"U+200B", "U+200C", "U+200D", "U+FEFF"}

----------------------------------------------------------------------------
\* Numbers: null, NaN, or the exact rational num/den.

NullNum == [kind |-> "null", num |-> 0, den |-> 1]

NaN == [kind |-> "NaN", num |-> 0, den |-> 1]

Num(n, d) == [kind |-> "num", num |-> n, den |-> d]

RECURSIVE DigitsToNat(_)
DigitsToNat(s) ==
    IF s = <<>> THEN 0
    ELSE 10 * DigitsToNat(SubSeq(s, 1, Len(s) - 1)) + DigitVal(s[Len(s)])

RECURSIVE Pow10(_)
Pow10(n) == IF n = 0 THEN 1 ELSE 10 * Pow10(n - 1)

\* parseFloat on a string without sign, exponent or white space: the longest
\* prefix  digits [. digits]  or  . digits ; NaN when that prefix has no digit.
parseFloat(s) ==
    LET int  == TakeWhile(s, Digits)
        rest == SubSeq(s, Len(int) + 1, Len(s))
        frac == IF rest # <<>> /\ Head(rest) = "."
                THEN TakeWhile(Tail(rest), Digits) ELSE <<>>
    IN  IF int = <<>> /\ frac = <<>> THEN NaN
        ELSE Num(DigitsToNat(int) * Pow10(Len(frac)) + DigitsToNat(frac),
                 Pow10(Len(frac)))

\* parseInt(s, 10) on a string without sign or white space.
parseInt(s) ==
    LET int == TakeWhile(s, Digits)
    IN  IF int = <<>> THEN NaN ELSE Num(DigitsToNat(int), 1)

Times(v, k) == IF v.kind = "num" THEN Num(v.num * k, v.den) ELSE v

----------------------------------------------------------------------------
\* parseInstallString

\* The characters s.replace(/[^\dKMkmb\.]/g, '') keeps.
InstallKept == Digits \cup {"K", "M", "k", "m", "b", "."}

parseInstallString(s) ==
    IF ~Truthy(s) THEN NullNum
    ELSE LET normalized == MapChars(Filter(s.str, InstallKept), toUpperCase)
         IN  IF "M" \in Range(normalized)
             THEN Times(parseFloat(RemoveFirst(normalized, "M")), 1000000)
             ELSE IF "K" \in Range(normalized)
             THEN Times(parseFloat(RemoveFirst(normalized, "K")), 1000)
             ELSE LET digits == Filter(normalized, Range(normalized) \ {",", "+"})
                      n == parseInt(digits)
                  IN  IF n.kind = "NaN" THEN NullNum ELSE n

----------------------------------------------------------------------------
\* cleanText

\* s.replace(/\s+/g, ' '): every maximal run of white space becomes one space.
RECURSIVE CollapseWhiteSpace(_)
CollapseWhiteSpace(s) ==
    IF s = <<>> THEN <<>>
    ELSE IF Head(s) \in WhiteSpace
    THEN <<" ">> \o CollapseWhiteSpace(DropWhile(s, WhiteSpace))
    ELSE <<Head(s)>> \o CollapseWhiteSpace(Tail(s))

trim(s) == Reverse(DropWhile(Reverse(DropWhile(s, WhiteSpace)), WhiteSpace))

cleanText(s) ==
    IF ~Truthy(s) THEN <<>>
    ELSE trim(Filter(CollapseWhiteSpace(s.str), (Range(s.str) \cup {" "}) \ ZeroWidth))

----------------------------------------------------------------------------
\* GET /api/suggest.  The response text is a sequence of JSON tokens: the
\* brackets, the comma, a string literal and a bare word that is no JSON value.

LB == "["

RB == "]"

COMMA == ","

STR == "\"s\""

JUNK == "x"

JsonTokens == {LB, RB, COMMA, STR, JUNK}

JString == [isArray |-> FALSE, items |-> <<>>]

JArray(items) == [isArray |-> TRUE, items |-> items]

ParseFail == [ok |-> FALSE, val |-> JString, rest |-> <<>>]

\* A recursive-descent reading of the JSON grammar over the tokens.
RECURSIVE ParseValue(_)
RECURSIVE ParseItems(_, _)
ParseValue(ts) ==
    IF ts = <<>> THEN ParseFail
    ELSE IF Head(ts) = STR THEN [ok |-> TRUE, val |-> JString, rest |-> Tail(ts)]
    ELSE IF Head(ts) = LB
    THEN IF Tail(ts) # <<>> /\ Head(Tail(ts)) = RB
         THEN [ok |-> TRUE, val |-> JArray(<<>>), rest |-> Tail(Tail(ts))]
         ELSE ParseItems(Tail(ts), <<>>)
    ELSE ParseFail

ParseItems(ts, acc) ==
    LET v == ParseValue(ts)
    IN  IF ~v.ok \/ v.rest = <<>> THEN ParseFail
        ELSE IF Head(v.rest) = COMMA
        THEN ParseItems(Tail(v.rest), Append(acc, v.val))
        ELSE IF Head(v.rest) = RB
        THEN [ok |-> TRUE, val |-> JArray(Append(acc, v.val)), rest |-> Tail(v.rest)]
        ELSE ParseFail

\* JSON.parse: throws (ok = FALSE) unless the whole text is one value.
JSONparse(ts) ==
    LET v == ParseValue(ts)
    IN  IF v.ok /\ v.rest = <<>> THEN v ELSE ParseFail

\* txt.match(/\[".*?",\s*(\[[^\]]+\])/): a "[" followed by a string literal,
\* lazily on to a closing quote followed by a comma, then a "[" , one or more
\* tokens other than "]" and the first "]".  MatchAt(ts, a, b) is the capture
\* for the "[" at a and the closing quote at b, or none.
FirstRB(ts, from) ==
    IF \E k \in from..Len(ts) : ts[k] = RB
    THEN CHOOSE k \in from..Len(ts) : ts[k] = RB /\ \A l \in from..(k - 1) : ts[l] # RB
    ELSE 0

MatchAt(ts, a, b) ==
    /\ a + 1 <= b
    /\ b + 2 <= Len(ts)
    /\ ts[a] = LB
    /\ ts[a + 1] = STR
    /\ ts[b] = STR
    /\ ts[b + 1] = COMMA
    /\ ts[b + 2] = LB
    /\ FirstRB(ts, b + 3) >= b + 4

SuggestMatch(ts) ==
    LET hits == {ab \in (1..Len(ts)) \X (1..Len(ts)) : MatchAt(ts, ab[1], ab[2])}
    IN  IF hits = {} THEN [found |-> FALSE, group |-> <<>>]
        ELSE LET a == CHOOSE x \in {h[1] : h \in hits} : \A y \in {h[1] : h \in hits} : x <= y
                 bs == {h[2] : h \in {g \in hits : g[1] = a}}
                 b == CHOOSE x \in bs : \A y \in bs : x <= y
             IN  [found |-> TRUE, group |-> SubSeq(ts, b + 2, FirstRB(ts, b + 3))]

SuggestOk(list) == [status |-> 200, suggestions |-> list]

SuggestFailed == [status |-> 500, error |-> "Suggest failed", detail |-> "err.message"]

\* Lines 68-82: the inner try, its catch with the regex fallback, and the
\* outer catch that an exception of the fallback's JSON.parse reaches.
SuggestBody(t) ==
    LET data == JSONparse(t)
    IN  IF data.ok
        THEN SuggestOk(IF data.val.isArray /\ Len(data.val.items) >= 2
                          /\ data.val.items[2].isArray
                       THEN data.val.items[2].items ELSE <<>>)
        ELSE LET m == SuggestMatch(t)
             IN  IF m.found
                 THEN IF JSONparse(m.group).ok
                      THEN SuggestOk(JSONparse(m.group).val.items)
                      ELSE SuggestFailed
                 ELSE SuggestOk(<<>>)

----------------------------------------------------------------------------
\* Candidate extraction (lines 118-136).  The search page is the sequence of
\* its occurrences of "/store/apps/details?id=" in document order; each holds
\* the characters that follow "id=" up to the closing quote, and whether it
\* is the href of an <a> element (seen by the cheerio scan and by the regex
\* on the raw HTML) or plain text (seen by the regex only).

LimitCap == 50

WordChars == Range(LowerChars) \cup Range(UpperChars) \cup Digits \cup {"_"}

\* href.match(/\/store\/apps\/details\?id=([^&/]+)/): m[1], or <<>> for no match.
StructuredId(id) == TakeWhile(id, Range(id) \ {"&", "/"})

\* /\/store\/apps\/details\?id=([\w\.]+)/g: match[1], or <<>> for no match.
RawId(id) == TakeWhile(id, WordChars \cup {"."})

\* An add that does not look for the element.
SetAddAlways(set, x) == Append(set, x)

\* Set.prototype.add on a Set kept as the sequence of its insertion order.
SetAdd(set, x) == IF x \in Range(set) THEN set ELSE Append(set, x)

\* Lines 120-125: the .each callback over the matching <a> elements.
RECURSIVE StructuredScan(_, _, _)
StructuredScan(els, lim, pkgSet) ==
    IF els = <<>> THEN pkgSet
    ELSE LET el == Head(els)
             m == StructuredId(el.id)
         IN  IF ~el.anchor \/ Len(pkgSet) >= lim \/ m = <<>>
             THEN StructuredScan(Tail(els), lim, pkgSet)
             ELSE StructuredScan(Tail(els), lim, SetAdd(pkgSet, m))

\* Lines 131-133: the while loop over regex.exec; it ends at the first match
\* found with the set already full.
RECURSIVE FallbackScan(_, _, _)
FallbackScan(els, lim, pkgSet) ==
    IF els = <<>> THEN pkgSet
    ELSE IF RawId(Head(els).id) = <<>> THEN FallbackScan(Tail(els), lim, pkgSet)
    ELSE IF Len(pkgSet) >= lim THEN pkgSet
    ELSE FallbackScan(Tail(els), lim, SetAdd(pkgSet, RawId(Head(els).id)))

\* Line 89, for a limit parameter that parses to a number.
ParseLimit(requested) == Min(LimitCap, requested)

\* Lines 118-136, for lim >= 0.
ExtractPackages(html, lim) ==
    LET scanned == StructuredScan(html, lim, <<>>)
        pkgSet == IF Len(scanned) < lim THEN FallbackScan(html, lim, scanned)
                  ELSE scanned
    IN  SubSeq(pkgSet, 1, Min(lim, Len(pkgSet)))

----------------------------------------------------------------------------
\* Keyword frequency map (lines 244-277).

TITLE_BOOST == 3

stopwords ==
    {<<"t", "h", "e">>, <<"a", "n", "d">>, <<"f", "o", "r">>,
     <<"w", "i", "t", "h">>, <<"f", "r", "o", "m">>, <<"t", "h", "i", "s">>,
     <<"t", "h", "a", "t">>, <<"h", "a", "v", "e">>, <<"y", "o", "u", "r">>,
     <<"m", "o", "r", "e">>, <<"w", "h", "a", "t">>, <<"w", "h", "e", "n">>,
     <<"w", "h", "e", "r", "e">>, <<"w", "h", "i", "c", "h">>,
     <<"w", "i", "l", "l">>, <<"a", "p", "p">>, <<"a", "p", "p", "s">>,
     <<"a", "n", "d", "r", "o", "i", "d">>, <<"m", "o", "b", "i", "l", "e">>,
     <<"f", "r", "e", "e">>, <<"p", "r", "o">>, <<"p", "l", "u", "s">>,
     <<"-">>, <<"a">>, <<"a", "n">>, <<"i", "n">>, <<"o", "n">>,
     <<"o", "f">>, <<"t", "o">>, <<"b", "y">>, <<"i", "s">>,
     <<"a", "r", "e">>}

\* s.replace(/[U+2018 U+2019 U+201C U+201D]/g, "'")
CurlyQuotes == {"U+2018", "U+2019", "U+201C", "U+201D"}

\* The characters .replace(/[^a-z0-9\s']/g, ' ') leaves alone.
TokenKept == Range(LowerChars) \cup Digits \cup WhiteSpace \cup {"'"}

TokenChar(c) ==
    LET l == toLowerCase(c)
        u == IF l \in CurlyQuotes THEN "'" ELSE l
    IN  IF u \in TokenKept THEN u ELSE " "

\* split(/\s+/) followed by filter(Boolean): the maximal runs of characters
\* that are no white space.
RECURSIVE SplitWhiteSpace(_)
SplitWhiteSpace(s) ==
    LET t == DropWhile(s, WhiteSpace)
        tok == TakeWhile(t, Range(t) \ WhiteSpace)
    IN  IF t = <<>> THEN <<>>
        ELSE <<tok>> \o SplitWhiteSpace(SubSeq(t, Len(tok) + 1, Len(t)))

tokenize(s) == IF s = <<>> THEN <<>> ELSE SplitWhiteSpace(MapChars(s, TokenChar))

\* Line 271.
baseTokens(kw) ==
    LET parts == SplitWhiteSpace(kw)
    IN  [k \in 1..Len(parts) |-> MapChars(parts[k], toLowerCase)]

\* freqMap.set(tk, (freqMap.get(tk) || 0) + w) on a Map kept as the sequence
\* of its entries in insertion order.
MapAdd(map, tk, w) ==
    IF \E k \in 1..Len(map) : map[k].keyword = tk
    THEN [k \in 1..Len(map) |->
            IF map[k].keyword = tk
            THEN [keyword |-> tk, score |-> map[k].score + w] ELSE map[k]]
    ELSE Append(map, [keyword |-> tk, score |-> w])

\* Lines 259 and 265: the tokens of a title or a description that count.
Qualifies(tk) == Len(tk) >= 3 /\ tk \notin stopwords

\* The keyword filtered like a title.
SeedQualifiesUnlessStopword(t) == Qualifies(t)

\* Line 273: the tokens of the keyword that count.
SeedQualifies(t) == Len(t) >= 3

RECURSIVE AddTokens(_, _, _)
AddTokens(map, toks, w) ==
    IF toks = <<>> THEN map
    ELSE AddTokens(IF Qualifies(Head(toks)) THEN MapAdd(map, Head(toks), w) ELSE map,
                   Tail(toks), w)

RECURSIVE AddSeedTokens(_, _)
AddSeedTokens(map, toks) ==
    IF toks = <<>> THEN map
    ELSE AddSeedTokens(IF SeedQualifies(Head(toks))
                       THEN MapAdd(map, Head(toks), TITLE_BOOST * 2) ELSE map,
                       Tail(toks))

\* Lines 254-268.
RECURSIVE AddResults(_, _)
AddResults(map, rs) ==
    IF rs = <<>> THEN map
    ELSE AddResults(AddTokens(AddTokens(map, tokenize(Head(rs).title), TITLE_BOOST),
                              tokenize(Head(rs).description), 1),
                    Tail(rs))

\* Lines 254-274.
FreqMap(kw, rs) == AddSeedTokens(AddResults(<<>>, rs), baseTokens(kw))

\* Line 277: Array.prototype.sort with (a, b) => b.score - a.score is stable,
\* so entries of equal score keep the Map's insertion order.
RECURSIVE InsertByScore(_, _)
InsertByScore(sorted, e) ==
    IF sorted = <<>> THEN <<e>>
    ELSE IF Head(sorted).score >= e.score
    THEN <<Head(sorted)>> \o InsertByScore(Tail(sorted), e)
    ELSE <<e>> \o sorted

RECURSIVE SortByScore(_)
SortByScore(map) ==
    IF map = <<>> THEN <<>>
    ELSE InsertByScore(SortByScore(SubSeq(map, 1, Len(map) - 1)), map[Len(map)])

FreqArr(kw, rs) == SortByScore(FreqMap(kw, rs))

----------------------------------------------------------------------------
\* Difficulty heuristic (lines 281-291).

ScaleUnit == 100000

MaxDifficulty == 100

FallbackBase == 50

TopSuggestions == 120

Infinity == [kind |-> "Infinity", num |-> 0, den |-> 1]

\* Math.round of the rational n/d >= 0: halves round up.
Round(n, d) == (2 * n + d) \div (2 * d)

\* The fallback without its Math.max(1, ...).
FallbackWithoutFloor(s) == Min(MaxDifficulty, Round(FallbackBase, 1 + s))

\* Math.min(100, Math.max(1, Math.round(50 / (1 + s)))), line 289.
FallbackDifficulty(s) ==
    Min(MaxDifficulty, Max(1, Round(FallbackBase, 1 + s)))

\* Lines 285-288.  scale is max(1, avg / 100000), so difficultyRaw is
\* avg / (1 + s) while avg <= 100000 and (avg / (1 + s)) / (avg / 100000),
\* that is 100000 / (1 + s), above it; with avg infinite it is
\* Infinity / Infinity, NaN, and Math.round(Math.min(100, NaN)) is NaN.
PrimaryDifficulty(avg, s) ==
    IF avg.kind = "Infinity" THEN NaN
    ELSE LET rawNum == IF avg.num <= ScaleUnit * avg.den THEN avg.num ELSE ScaleUnit
             rawDen == IF avg.num <= ScaleUnit * avg.den THEN avg.den * (1 + s) ELSE 1 + s
         IN  IF rawNum >= MaxDifficulty * rawDen THEN Num(MaxDifficulty, 1)
             ELSE Num(Round(rawNum, rawDen), 1)

\* Lines 287-289: the difficulty of a keyword of score s.
Difficulty(avg, s) ==
    LET d == PrimaryDifficulty(avg, s)
    IN  IF d.kind # "num" \/ d.num <= 0 THEN FallbackDifficulty(s) ELSE d.num

\* Lines 281-282: the mean of the positive install counts, 0 without any.
\* Install counts are rationals whose denominators are powers of ten.
RECURSIVE SumInstalls(_)
SumInstalls(rs) ==
    IF rs = <<>> THEN [num |-> 0, den |-> 1, count |-> 0]
    ELSE LET rest == SumInstalls(Tail(rs))
             x == Head(rs).installs
         IN  IF x.kind = "num" /\ x.num > 0
             THEN LET d == Max(rest.den, x.den)
                  IN  [num |-> rest.num * (d \div rest.den) + x.num * (d \div x.den),
                       den |-> d, count |-> rest.count + 1]
             ELSE rest

AvgInstalls(rs) ==
    LET t == SumInstalls(rs)
    IN  IF t.count = 0 THEN Num(0, 1) ELSE Num(t.num, t.den * t.count)

\* Lines 286-291.
Suggestions(arr, avg) ==
    LET top == SubSeq(arr, 1, Min(TopSuggestions, Len(arr)))
    IN  [k \in 1..Len(top) |->
            [keyword |-> top[k].keyword, score |-> top[k].score,
             difficulty |-> Difficulty(avg, top[k].score)]]

----------------------------------------------------------------------------
\* One competitor record (lines 184-226 and 232).

DOWNLOADS == <<"d", "o", "w", "n", "l", "o", "a", "d", "s">>

INSTALLS == <<"i", "n", "s", "t", "a", "l", "l", "s">>

NumChars == Digits \cup {",", "."}

StartsWithCI(s, w) ==
    Len(s) >= Len(w) /\ MapChars(SubSeq(s, 1, Len(w)), toLowerCase) = w

\* Line 201: instTextCandidates.match(/[\d,.]+(?:\+)?\s*(?:downloads|installs)?
\* |[\d\.]+\s*M|\d+\s*K/i).  Wherever the second or third alternative could
\* start, the first one matches, so im[0] is the first run of digits, commas
\* and dots with what the first alternative takes after it.  <<>> is no match.
InstallsMatch(text) ==
    LET t == DropWhile(text, Range(text) \ NumChars)
        run == TakeWhile(t, NumChars)
        a == SubSeq(t, Len(run) + 1, Len(t))
        plus == IF a # <<>> /\ Head(a) = "+" THEN 1 ELSE 0
        b == SubSeq(a, plus + 1, Len(a))
        ws == TakeWhile(b, WhiteSpace)
        c == SubSeq(b, Len(ws) + 1, Len(b))
        word == IF StartsWithCI(c, DOWNLOADS) THEN 9
                ELSE IF StartsWithCI(c, INSTALLS) THEN 8 ELSE 0
    IN  SubSeq(t, 1, Len(run) + plus + Len(ws) + word)

\* Lines 192-203 and 215: instTextCandidates is the joined text of line 198.
Installs(instTextCandidates) ==
    LET im == InstallsMatch(instTextCandidates.str)
        installs == IF ~Truthy(instTextCandidates) THEN Null
                    ELSE IF im # <<>> THEN Str(im) ELSE instTextCandidates
        n == parseInstallString(installs)
    IN  IF n.kind = "num" /\ n.num # 0 THEN n ELSE NullNum

\* Line 216, on the capture m[1] of line 208 (null without a match).
Rating(capture) == IF Truthy(capture) THEN parseFloat(capture.str) ELSE NullNum

\* Lines 213-226.  m holds what detailPage.evaluate and the cheerio reads
\* gave: title, description (meta.description, else the itemprop text),
\* instTextCandidates, the rating capture, developer.
BuildRecord(pkg, m) ==
    LET title == IF Truthy(m.title) THEN cleanText(m.title) ELSE <<>>
    IN  [package |-> pkg,
         title |-> IF title # <<>> THEN title ELSE pkg,
         description |-> IF Truthy(m.description) THEN cleanText(m.description) ELSE <<>>,
         installs |-> Installs(m.instTextCandidates),
         rating |-> Rating(m.rating),
         developer |-> IF Truthy(m.developer) THEN m.developer ELSE Null]

\* Line 232: the minimal record.
MinimalRecord(pkg) ==
    [package |-> pkg, title |-> pkg, description |-> <<>>, installs |-> NullNum,
     rating |-> NullNum, developer |-> Null]

----------------------------------------------------------------------------
\* Responses.

\* Line 88: the country of a request that names none.
DefaultCountry == <<"u", "s">>

\* Lines 294-302.
AnalyzeOk(kw, lim, rs) ==
    LET avg == AvgInstalls(rs)
    IN  [status |-> 200, keyword |-> kw, country |-> DefaultCountry, limit |-> lim,
         topCount |-> Len(rs),
         avgInstalls |-> Round(avg.num, avg.den),
         competitors |-> [k \in 1..Len(rs) |->
            [rank |-> k, package |-> rs[k].package, title |-> rs[k].title,
             rating |-> rs[k].rating, installs |-> rs[k].installs,
             developer |-> rs[k].developer]],
         suggestions |-> Suggestions(FreqArr(kw, rs), avg)]

\* Line 307.
AnalyzeFailed(e) == [status |-> 500, error |-> "analyze failed", detail |-> e]

\* Line 91.
KeywordRequired == [status |-> 400, error |-> "keyword required"]

----------------------------------------------------------------------------
\* Inputs.

PkgA == <<"a">>

PkgB == <<"a", "-", "b">>

PkgC == <<"-", "b">>

PkgD == <<"b">>

Ids == {PkgA, PkgB, PkgC}

InstallExamples ==
    {<<"1", ",", "0", "0", "0", "+">>,
     <<"1", "0", "M">>, <<"5", "0", "0", "K">>}

WordThe == <<"t", "h", "e">>

WordApp == <<"a", "p", "p">>

WordCam == <<"C", "a", "m">>

WordHdCam == <<"h", "d", "-", "c", "a", "m">>

WordAb == <<"a", "b">>

Vocabulary == {WordThe, WordApp, WordCam, WordHdCam, WordAb}

TitleTheCam == <<"t", "h", "e", " ", "C", "a", "m">>

TitleHdCam == <<"H", "D", "-", "c", "a", "m", " ", "a", "p", "p">>

Titles == {TitleTheCam, TitleHdCam}

DescCam == <<"c", "a", "m", " ", "f", "o", "r", " ", "t", "h", "e", " ", "p", "r", "o", " ", "c", "a", "m", "e", "r", "a">>

Descriptions == {<<>>, DescCam}

TitlePhotoCam == <<"P", "h", "o", "t", "o", " ", "\t", "C", "a", "m">>

DescBest == <<"t", "h", "e", " ", "b", "e", "s", "t", " ", "c", "a", "m">>

InstThousand == <<"1", ",", "0", "0", "0", "+", " ", "d", "o", "w", "n", "l", "o", "a", "d", "s">>

InstTenM == <<"1", "0", "M", "+">>

KwCamApp == <<"c", "a", "m", " ", "a", "p", "p">>

KwTheApp == <<"t", "h", "e", " ", "a", "p", "p">>

InstallChars == {"0", "1", ".", ",", "M", "K", "m", "b"}

InstallInputs ==
    {Null} \cup {Str(s) : s \in SeqsUpTo(InstallChars, MaxInstallLen)}
           \cup {Str(s) : s \in InstallExamples}

CleanChars == {"a", " ", "\t", "U+200B", "U+FEFF"}

CleanInputs == {Null} \cup {Str(s) : s \in SeqsUpTo(CleanChars, MaxCleanLen)}

Queries == {<<>>, <<" ">>, <<"a">>}

Txts == SeqsUpTo(JsonTokens, MaxTxtLen)

InstallSums == {1, 49, 51, 150, 10049, 100000, 100001, 10000000}

Averages ==
    {Num(0, 1), Infinity} \cup {Num(n, c) : n \in InstallSums, c \in 1..MaxCount}

Scores == 0..MaxScore

Occurrences == [anchor : BOOLEAN, id : Ids]

SearchPages == SeqsUpTo(Occurrences, MaxLinks)

Limits == {ParseLimit(r) : r \in (1..MaxLimit) \cup {10, 51}}

RECURSIVE Join(_)
Join(words) ==
    IF words = <<>> THEN <<>>
    ELSE IF Len(words) = 1 THEN words[1]
    ELSE words[1] \o <<" ">> \o Join(Tail(words))

Keywords == {Join(ws) : ws \in SeqsUpTo(Vocabulary, MaxWords) \ {<<>>}}

SampleRecords ==
    {[package |-> PkgA, title |-> t, description |-> d,
      installs |-> IF d = <<>> THEN NullNum ELSE Num(1000, 1),
      rating |-> NullNum, developer |-> Null] :
        t \in Titles, d \in Descriptions}

\* What one detail page can give.
Metas ==
    {[title |-> Str(TitlePhotoCam), description |-> Str(DescBest),
      instTextCandidates |-> Str(InstThousand), rating |-> Str(<<"4", ".", "5">>),
      developer |-> Str(<<"D", "e", "v">>)],
     [title |-> Null, description |-> Null, instTextCandidates |-> Null,
      rating |-> Null, developer |-> Null],
     [title |-> Str(<<"C", "a", "m">>), description |-> Str(<<>>),
      instTextCandidates |-> Str(InstTenM), rating |-> Str(<<".">>),
      developer |-> Null]}

\* The search pages of the runs of the whole handler: the prefixes of one page.
FullPage ==
    <<[anchor |-> TRUE, id |-> PkgA], [anchor |-> TRUE, id |-> PkgA],
      [anchor |-> FALSE, id |-> PkgD], [anchor |-> TRUE, id |-> PkgB]>>

RunPages == {SubSeq(FullPage, 1, k) : k \in 0..Len(FullPage)}

RunKeywords == {<<>>, <<" ">>, KwCamApp}

----------------------------------------------------------------------------
\* The helpers and the suggestions callback, each called on an input.

CallParseInstallString ==
    /\ installResult = <<>>
    /\ installResult' = <<parseInstallString(installInput)>>
    /\ UNCHANGED <<installInput, cleanVars, suggestVars, diffVars, analyzeVars>>

CallCleanText ==
    /\ cleanOnce = <<>>
    /\ cleanOnce' = <<cleanText(cleanInput)>>
    /\ UNCHANGED <<cleanInput, cleanTwice, installVars, suggestVars, diffVars, analyzeVars>>

CallCleanTextAgain ==
    /\ cleanOnce # <<>>
    /\ cleanTwice = <<>>
    /\ cleanTwice' = <<cleanText(Str(cleanOnce[1]))>>
    /\ UNCHANGED <<cleanInput, cleanOnce, installVars, suggestVars, diffVars, analyzeVars>>

ComputeDifficulty ==
    /\ difficulty = <<>>
    /\ difficulty' = <<Difficulty(avgInstalls, score)>>
    /\ UNCHANGED <<avgInstalls, score, installVars, cleanVars, suggestVars, analyzeVars>>

----------------------------------------------------------------------------
\* GET /api/suggest (lines 60-83).  q is req.query.q trimmed.

\* Line 63.
SuggestEmptyQuery ==
    /\ suggestPc = "start"
    /\ q = <<>>
    /\ suggestSent' = Append(suggestSent, SuggestOk(<<>>))
    /\ suggestPc' = "done"
    /\ UNCHANGED <<q, txt, installVars, cleanVars, diffVars, analyzeVars>>

\* Lines 66-67: fetch and r.text() resolve.
SuggestFetch ==
    /\ suggestPc = "start"
    /\ q # <<>>
    /\ \E t \in Txts : txt' = Str(t)
    /\ suggestPc' = "fetched"
    /\ UNCHANGED <<q, suggestSent, installVars, cleanVars, diffVars, analyzeVars>>

\* Lines 66-67 reject: the outer catch answers.
SuggestFetchThrows ==
    /\ suggestPc = "start"
    /\ q # <<>>
    /\ suggestSent' = Append(suggestSent, SuggestFailed)
    /\ suggestPc' = "done"
    /\ UNCHANGED <<q, txt, installVars, cleanVars, diffVars, analyzeVars>>

\* Lines 68-82.
SuggestAnswer ==
    /\ suggestPc = "fetched"
    /\ suggestSent' = Append(suggestSent, SuggestBody(txt.str))
    /\ suggestPc' = "done"
    /\ UNCHANGED <<q, txt, installVars, cleanVars, diffVars, analyzeVars>>

----------------------------------------------------------------------------
\* GET /api/analyze (lines 86-309), one action per await and its rejection.

Rest == <<installVars, cleanVars, suggestVars, diffVars>>

\* An exception that reaches the outer catch of line 304.
Throw(step) ==
    /\ pc' = "catch"
    /\ err' = step

\* The loop test of line 140.
LoopPc(idx, pkgs) == IF idx <= Len(pkgs) THEN "detailNewPage" ELSE "browserClose"

\* Line 91.
RejectEmptyKeyword ==
    /\ pc = "start"
    /\ keyword = <<>>
    /\ sent' = Append(sent, KeywordRequired)
    /\ pc' = "done"
    /\ UNCHANGED <<keyword, limit, searchHtml, packages, results, i, browser,
                   searchPageOpen, detailPages, warned, err, closeCalls, closeErr, Rest>>

\* Line 96.
Launch ==
    /\ pc = "start"
    /\ keyword # <<>>
    /\ browser' = "open"
    /\ pc' = "newPage"
    /\ UNCHANGED <<keyword, limit, searchHtml, packages, results, i,
                   searchPageOpen, detailPages, warned, err, closeCalls, closeErr, sent, Rest>>

LaunchThrows ==
    /\ pc = "start"
    /\ keyword # <<>>
    /\ Throw("launch")
    /\ UNCHANGED <<keyword, limit, searchHtml, packages, results, i, browser,
                   searchPageOpen, detailPages, warned, closeCalls, closeErr, sent, Rest>>

\* Line 101.
NewPage ==
    /\ pc = "newPage"
    /\ searchPageOpen' = TRUE
    /\ pc' = "goto"
    /\ UNCHANGED <<keyword, limit, searchHtml, packages, results, i, browser,
                   detailPages, warned, err, closeCalls, closeErr, sent, Rest>>

NewPageThrows ==
    /\ pc = "newPage"
    /\ Throw("newPage")
    /\ UNCHANGED <<keyword, limit, searchHtml, packages, results, i, browser,
                   searchPageOpen, detailPages, warned, closeCalls, closeErr, sent, Rest>>

\* Lines 105-113: the page that loads is any search page.
Goto ==
    /\ pc = "goto"
    /\ searchHtml' \in RunPages
    /\ pc' = "content"
    /\ UNCHANGED <<keyword, limit, packages, results, i, browser,
                   searchPageOpen, detailPages, warned, err, closeCalls, closeErr, sent, Rest>>

GotoThrows ==
    /\ pc = "goto"
    /\ Throw("goto")
    /\ UNCHANGED <<keyword, limit, searchHtml, packages, results, i, browser,
                   searchPageOpen, detailPages, warned, closeCalls, closeErr, sent, Rest>>

\* Lines 116-140: page.content(), the candidate extraction, the empty results.
ReadSearch ==
    /\ pc = "content"
    /\ packages' = ExtractPackages(searchHtml, limit)
    /\ results' = <<>>
    /\ i' = 1
    /\ pc' = LoopPc(1, packages')
    /\ UNCHANGED <<keyword, limit, searchHtml, browser,
                   searchPageOpen, detailPages, warned, err, closeCalls, closeErr, sent, Rest>>

ReadSearchThrows ==
    /\ pc = "content"
    /\ Throw("content")
    /\ UNCHANGED <<keyword, limit, searchHtml, packages, results, i, browser,
                   searchPageOpen, detailPages, warned, closeCalls, closeErr, sent, Rest>>

\* One candidate without its try/catch: the exception reaches line 304.
DetailRethrow(step) ==
    /\ Throw(step)
    /\ UNCHANGED <<keyword, limit, searchHtml, packages, results, i, browser,
                   searchPageOpen, detailPages, warned, closeCalls, closeErr, sent, Rest>>

\* Lines 229-233: the catch of one candidate. Nothing closes detailPage here.
DetailCatch(step) ==
    /\ warned' = Append(warned, [package |-> packages[i], step |-> step])
    /\ results' = Append(results, MinimalRecord(packages[i]))
    /\ pc' = "delay"
    /\ UNCHANGED <<keyword, limit, searchHtml, packages, i, browser,
                   searchPageOpen, detailPages, err, closeCalls, closeErr, sent, Rest>>

\* Line 145.
DetailNewPage ==
    /\ pc = "detailNewPage"
    /\ detailPages' = detailPages \cup {i}
    /\ pc' = "detailGoto"
    /\ UNCHANGED <<keyword, limit, searchHtml, packages, results, i, browser,
                   searchPageOpen, warned, err, closeCalls, closeErr, sent, Rest>>

DetailNewPageThrows ==
    /\ pc = "detailNewPage"
    /\ DetailCatch("detailNewPage")

\* Lines 146-148.
DetailGoto ==
    /\ pc = "detailGoto"
    /\ pc' = "detailEval"
    /\ UNCHANGED <<keyword, limit, searchHtml, packages, results, i, browser,
                   searchPageOpen, detailPages, warned, err, closeCalls, closeErr, sent, Rest>>

DetailGotoThrows ==
    /\ pc = "detailGoto"
    /\ DetailCatch("detailGoto")

\* Lines 151-226: waitForSelector (its rejection ignored), evaluate, content,
\* the record and results.push.
DetailEval ==
    /\ pc = "detailEval"
    /\ \E m \in Metas : results' = Append(results, BuildRecord(packages[i], m))
    /\ pc' = "detailClose"
    /\ UNCHANGED <<keyword, limit, searchHtml, packages, i, browser,
                   searchPageOpen, detailPages, warned, err, closeCalls, closeErr, sent, Rest>>

DetailEvalThrows ==
    /\ pc = "detailEval"
    /\ DetailCatch("detailEval")

\* Line 228, after the push of line 218.
DetailClose ==
    /\ pc = "detailClose"
    /\ detailPages' = detailPages \ {i}
    /\ pc' = "delay"
    /\ UNCHANGED <<keyword, limit, searchHtml, packages, results, i, browser,
                   searchPageOpen, warned, err, closeCalls, closeErr, sent, Rest>>

DetailCloseThrows ==
    /\ pc = "detailClose"
    /\ DetailCatch("detailClose")

\* Line 236 and the i++ of line 140.
Delay ==
    /\ pc = "delay"
    /\ i' = i + 1
    /\ pc' = LoopPc(i + 1, packages)
    /\ UNCHANGED <<keyword, limit, searchHtml, packages, results, browser,
                   searchPageOpen, detailPages, warned, err, closeCalls, closeErr, sent, Rest>>

\* Line 240: a closed browser has no open page.
BrowserClose ==
    /\ pc = "browserClose"
    /\ browser' = "closed"
    /\ searchPageOpen' = FALSE
    /\ detailPages' = {}
    /\ pc' = "respond"
    /\ UNCHANGED <<keyword, limit, searchHtml, packages, results, i,
                   warned, err, closeCalls, closeErr, sent, Rest>>

BrowserCloseThrows ==
    /\ pc = "browserClose"
    /\ Throw("browserClose")
    /\ UNCHANGED <<keyword, limit, searchHtml, packages, results, i, browser,
                   searchPageOpen, detailPages, warned, closeCalls, closeErr, sent, Rest>>

\* Lines 244-302.
Respond ==
    /\ pc = "respond"
    /\ sent' = Append(sent, AnalyzeOk(keyword, limit, results))
    /\ pc' = "done"
    /\ UNCHANGED <<keyword, limit, searchHtml, packages, results, i, browser,
                   searchPageOpen, detailPages, warned, err, closeCalls, closeErr, Rest>>

\* The catch of line 304 without the close of line 306.
CloseInCatchSkipped(closed) ==
    closed /\ UNCHANGED <<browser, searchPageOpen, detailPages, closeCalls, closeErr>>

\* Line 306: if (browser) try { await browser.close(); } catch(e){}
\* closed tells whether that close resolves; its rejection is swallowed and
\* leaves the browser as it was.
CloseInCatch(closed) ==
    IF browser = "none"
    THEN closed /\ UNCHANGED <<browser, searchPageOpen, detailPages, closeCalls, closeErr>>
    ELSE /\ closeCalls' = closeCalls + 1
         /\ closeErr' = (closeErr \/ ~closed)
         /\ browser' = IF closed THEN "closed" ELSE browser
         /\ searchPageOpen' = IF closed THEN FALSE ELSE searchPageOpen
         /\ detailPages' = IF closed THEN {} ELSE detailPages

\* Lines 304-306.
Catch ==
    /\ pc = "catch"
    /\ \E closed \in BOOLEAN : CloseInCatch(closed)
    /\ pc' = "catchRespond"
    /\ UNCHANGED <<keyword, limit, searchHtml, packages, results, i, warned, err, sent, Rest>>

\* Line 307.
CatchRespond ==
    /\ pc = "catchRespond"
    /\ sent' = Append(sent, AnalyzeFailed(err))
    /\ pc' = "done"
    /\ UNCHANGED <<keyword, limit, searchHtml, packages, results, i, browser,
                   searchPageOpen, detailPages, warned, err, closeCalls, closeErr, Rest>>

----------------------------------------------------------------------------
\* Initial states.

IdleInstalls == installInput = Null /\ installResult = <<>>

IdleClean == cleanInput = Null /\ cleanOnce = <<>> /\ cleanTwice = <<>>

IdleSuggest == suggestPc = "idle" /\ q = <<>> /\ txt = Null /\ suggestSent = <<>>

IdleDifficulty == avgInstalls = Num(0, 1) /\ score = 0 /\ difficulty = <<>>

\* Line 89: the limit of a request that names none.
DefaultLimit == 20

\* The handler before anything ran, with the given position.
AnalyzeAt(p) ==
    /\ pc = p
    /\ searchHtml = <<>>
    /\ packages = <<>>
    /\ results = <<>>
    /\ i = 1
    /\ browser = "none"
    /\ searchPageOpen = FALSE
    /\ detailPages = {}
    /\ warned = <<>>
    /\ err = "none"
    /\ closeCalls = 0
    /\ closeErr = FALSE
    /\ sent = <<>>

IdleAnalyze == AnalyzeAt("idle") /\ keyword = <<>> /\ limit = DefaultLimit

\* A request arrives: lines 87-89.
Init ==
    /\ AnalyzeAt("start")
    /\ keyword \in {trim(k) : k \in RunKeywords}
    /\ limit \in {ParseLimit(r) : r \in 1..MaxCandidates}
    /\ IdleInstalls /\ IdleClean /\ IdleSuggest /\ IdleDifficulty

Next ==
    \/ RejectEmptyKeyword
    \/ Launch \/ LaunchThrows
    \/ NewPage \/ NewPageThrows
    \/ Goto \/ GotoThrows
    \/ ReadSearch \/ ReadSearchThrows
    \/ DetailNewPage \/ DetailNewPageThrows
    \/ DetailGoto \/ DetailGotoThrows
    \/ DetailEval \/ DetailEvalThrows
    \/ DetailClose \/ DetailCloseThrows
    \/ Delay
    \/ BrowserClose \/ BrowserCloseThrows
    \/ Respond
    \/ Catch
    \/ CatchRespond

Spec == Init /\ [][Next]_vars

\* The handler with the search page loaded (line 116), over every search
\* page and limit of the bounds.
InitCandidates ==
    /\ pc = "content"
    /\ keyword = KwCamApp
    /\ limit \in Limits
    /\ searchHtml \in SearchPages
    /\ packages = <<>> /\ results = <<>> /\ i = 1
    /\ browser = "open" /\ searchPageOpen = TRUE /\ detailPages = {}
    /\ warned = <<>> /\ err = "none" /\ closeCalls = 0 /\ closeErr = FALSE
    /\ sent = <<>>
    /\ IdleInstalls /\ IdleClean /\ IdleSuggest /\ IdleDifficulty

NextCandidates == ReadSearch \/ ReadSearchThrows

SpecCandidates == InitCandidates /\ [][NextCandidates]_vars

\* The k-th of distinct package ids.
PkgN(k) == [j \in 1..k |-> "a"]

\* The handler with the browser closed (line 240), over every keyword and
\* list of results of the bounds.
InitFrequency ==
    /\ pc = "respond"
    /\ keyword \in Keywords
    /\ limit = DefaultLimit
    /\ searchHtml = <<>>
    /\ \E rs \in SeqsUpTo(SampleRecords, MaxRecords) :
          /\ results = [k \in 1..Len(rs) |-> [rs[k] EXCEPT !.package = PkgN(k)]]
          /\ packages = [k \in 1..Len(rs) |-> PkgN(k)]
          /\ i = Len(rs) + 1
    /\ browser = "closed" /\ searchPageOpen = FALSE /\ detailPages = {}
    /\ warned = <<>> /\ err = "none" /\ closeCalls = 0 /\ closeErr = FALSE
    /\ sent = <<>>
    /\ IdleInstalls /\ IdleClean /\ IdleSuggest /\ IdleDifficulty

NextFrequency == Respond

SpecFrequency == InitFrequency /\ [][NextFrequency]_vars

InitInstalls ==
    /\ installInput \in InstallInputs
    /\ installResult = <<>>
    /\ IdleClean /\ IdleSuggest /\ IdleDifficulty /\ IdleAnalyze

SpecInstalls == InitInstalls /\ [][CallParseInstallString]_vars

InitClean ==
    /\ cleanInput \in CleanInputs
    /\ cleanOnce = <<>>
    /\ cleanTwice = <<>>
    /\ IdleInstalls /\ IdleSuggest /\ IdleDifficulty /\ IdleAnalyze

NextClean == CallCleanText \/ CallCleanTextAgain

SpecClean == InitClean /\ [][NextClean]_vars

InitDifficulty ==
    /\ avgInstalls \in Averages
    /\ score \in Scores
    /\ difficulty = <<>>
    /\ IdleInstalls /\ IdleClean /\ IdleSuggest /\ IdleAnalyze

SpecDifficulty == InitDifficulty /\ [][ComputeDifficulty]_vars

\* A request arrives: line 62.
InitSuggest ==
    /\ suggestPc = "start"
    /\ q \in {trim(x) : x \in Queries}
    /\ txt = Null
    /\ suggestSent = <<>>
    /\ IdleInstalls /\ IdleClean /\ IdleDifficulty /\ IdleAnalyze

NextSuggest == SuggestEmptyQuery \/ SuggestFetch \/ SuggestFetchThrows \/ SuggestAnswer

SpecSuggest == InitSuggest /\ [][NextSuggest]_vars

----------------------------------------------------------------------------
\* Properties.

Responses(status) == {k \in 1..Len(sent) : sent[k].status = status}

\* C1: a successful analyze returns one competitor per candidate, the entry
\* of rank k being the k-th candidate in discovery order, and topCount is the
\* number of candidates, whatever per-candidate step failed (page open,
\* navigation, DOM evaluation, page close).
C1_RankIsDiscoveryOrder ==
    \A k \in Responses(200) :
        /\ sent[k].topCount = Len(packages)
        /\ Len(sent[k].competitors) = Len(packages)
        /\ \A j \in 1..Len(sent[k].competitors) :
              /\ sent[k].competitors[j].rank = j
              /\ sent[k].competitors[j].package = packages[j]

\* The steps of one candidate whose failure is a failure of the extraction.
ExtractionSteps == {"detailNewPage", "detailGoto", "detailEval"}

\* C2: a candidate whose detail extraction failed has exactly one record, the
\* degraded one (title = package id, description "", installs, rating and
\* developer null); the failure never becomes the err of the outer catch, so
\* no failure response comes from it, and a handler in which no top-level
\* step threw ends with a success response; that response has a record for
\* every candidate, the later ones included.
C2_FailureRecoveredLocally ==
    /\ \A w \in 1..Len(warned) :
          warned[w].step \in ExtractionSteps =>
             LET recs == {j \in 1..Len(results) : results[j].package = warned[w].package}
             IN  /\ Cardinality(recs) = 1
                 /\ \A j \in recs :
                       /\ results[j].title = warned[w].package
                       /\ results[j].description = <<>>
                       /\ results[j].installs.kind = "null"
                       /\ results[j].rating.kind = "null"
                       /\ results[j].developer.null
    /\ err \notin ExtractionSteps
    /\ \A k \in Responses(500) : sent[k].detail \notin ExtractionSteps
    /\ (pc = "done" /\ keyword # <<>> /\ err = "none") => Responses(200) # {}
    /\ \A k \in Responses(200) :
          \A c \in 1..Len(packages) :
             \E j \in 1..Len(sent[k].competitors) :
                sent[k].competitors[j].package = packages[c]

\* C2's case: the first of two candidates failed at navigation, the second
\* was extracted with an install count, and the answer is a success.
C2_Witness ==
    /\ Responses(200) # {}
    /\ Len(packages) = 2
    /\ Len(warned) = 1
    /\ warned[1] = [package |-> packages[1], step |-> "detailGoto"]
    /\ Len(results) = 2
    /\ results[2].installs.kind = "num"

\* Every attempt to add an identifier, in the order of the code: the
\* structured ids of the <a> elements, then the raw ids of all occurrences.
RECURSIVE NonEmpty(_)
NonEmpty(ids) ==
    IF ids = <<>> THEN <<>>
    ELSE IF Head(ids) = <<>> THEN NonEmpty(Tail(ids))
    ELSE <<Head(ids)>> \o NonEmpty(Tail(ids))

AddOrder(html) ==
    NonEmpty([k \in 1..Len(html) |->
                IF html[k].anchor THEN StructuredId(html[k].id) ELSE <<>>])
    \o NonEmpty([k \in 1..Len(html) |-> RawId(html[k].id)])

\* The first n distinct elements of seq, by first occurrence.
FirstDistinct(seq, n) ==
    LET firsts == {k \in 1..Len(seq) : \A j \in 1..(k - 1) : seq[j] # seq[k]}
        rank(k) == Cardinality({j \in firsts : j <= k})
    IN  [r \in 1..Min(n, Cardinality(firsts)) |->
            seq[CHOOSE k \in firsts : rank(k) = r]]

\* C3: for a limit in 1..50 the extracted candidates are at most limit, no
\* identifier appears twice, and they stand in the order in which they were
\* first added (structured scan, then regex fallback).
C3_AtMostLimitNoDuplicates ==
    pc \in {"detailNewPage", "browserClose"} =>
        /\ limit \in 1..LimitCap
        /\ Len(packages) <= limit
        /\ \A a, b \in 1..Len(packages) : a # b => packages[a] # packages[b]
        /\ packages = FirstDistinct(AddOrder(searchHtml), limit)

\* C3's case: three links to one package id and one to another, limit 10.
C3_Witness ==
    /\ pc = "detailNewPage"
    /\ limit = 10
    /\ searchHtml = <<[anchor |-> TRUE, id |-> PkgA], [anchor |-> TRUE, id |-> PkgA],
                      [anchor |-> TRUE, id |-> PkgA], [anchor |-> TRUE, id |-> PkgB]>>
    /\ packages = <<PkgA, PkgB>>

\* The top-level steps C4 names.
TopLevelSteps == {"launch", "newPage", "goto", "content"}

\* C4 as stated: a failed top-level step is answered by exactly one response,
\* a failure with an error kind and a detail and nothing else, and a launched
\* browser is closed when that response is sent.
C4_BrowserClosedOnFailure ==
    (err \in TopLevelSteps /\ sent # <<>>) =>
        /\ Len(sent) = 1
        /\ sent[1].status = 500
        /\ DOMAIN sent[1] = {"status", "error", "detail"}
        /\ browser \in {"none", "closed"}

\* C4 amended: ... and for a launched browser close has been called before
\* that response is sent; the browser is then closed unless that close threw.
C4_CloseAttemptedOnFailure ==
    (err \in TopLevelSteps /\ sent # <<>>) =>
        /\ Len(sent) = 1
        /\ sent[1].status = 500
        /\ DOMAIN sent[1] = {"status", "error", "detail"}
        /\ browser = "none" \/ (closeCalls = 1 /\ (browser = "closed" \/ closeErr))
        /\ browser = "none" <=> err = "launch"

\* C4's case: navigation to the search page failed, the browser was closed
\* and the failure was sent.
C4_Witness ==
    /\ err = "goto"
    /\ Len(sent) = 1
    /\ sent[1].status = 500
    /\ browser = "closed"
    /\ closeCalls = 1

\* C5: for a score >= 0 and an average install value >= 0 the difficulty is
\* an integer from 1 to 100.
C5_DifficultyInRange ==
    difficulty # <<>> => difficulty[1] \in 1..MaxDifficulty

\* C5's case: no installs and a score so high that the fallback rounds to 0.
C5_Witness ==
    /\ difficulty = <<1>>
    /\ avgInstalls = Num(0, 1)
    /\ score = 100

\* C6: a response text that is no valid JSON is never answered with an
\* error: the answer is the array the regex fallback recovers, or the empty
\* list when the fallback finds nothing or cannot parse what it found.
C6_MalformedNeverAnError ==
    (suggestSent # <<>> /\ ~txt.null /\ ~JSONparse(txt.str).ok) =>
        LET m == SuggestMatch(txt.str)
        IN  /\ suggestSent[1].status = 200
            /\ suggestSent[1].suggestions =
                  IF m.found /\ JSONparse(m.group).ok
                  THEN JSONparse(m.group).val.items ELSE <<>>

HasWhiteSpaceRun(s) == \E k \in 1..(Len(s) - 1) : s[k] \in WhiteSpace /\ s[k + 1] \in WhiteSpace

\* C7: cleanText is idempotent; its output has no run of two white-space
\* characters and no leading or trailing white space.
C7_CleanTextIdempotent ==
    cleanTwice # <<>> =>
        /\ cleanTwice = cleanOnce
        /\ ~HasWhiteSpaceRun(cleanOnce[1])
        /\ cleanOnce[1] # <<>> =>
              /\ cleanOnce[1][1] \notin WhiteSpace
              /\ cleanOnce[1][Len(cleanOnce[1])] \notin WhiteSpace

IsExample(text, n) ==
    installInput = Str(text) => (installResult[1].kind = "num" /\ installResult[1].num = n * installResult[1].den)

\* C8: the installs parser returns null or a number; null when the input has
\* no digit, a K or M suffix or not; and the five examples of the spec.
C8_NullOrNumber ==
    installResult # <<>> =>
        /\ installResult[1].kind \in {"null", "num"}
        /\ Range(installInput.str) \cap Digits = {} => installResult[1].kind = "null"
        /\ IsExample(<<"1", ",", "0", "0", "0", "+">>, 1000)
        /\ IsExample(<<"1", "0", "M">>, 10000000)
        /\ IsExample(<<"5", "0", "0", "K">>, 500000)

\* The number of positions of toks that hold tk.
Count(toks, tk) == Cardinality({k \in 1..Len(toks) : toks[k] = tk})

\* The occurrences of tk in the titles (inTitle) or the descriptions of rs.
RECURSIVE Occurs(_, _, _)
Occurs(rs, tk, inTitle) ==
    IF rs = <<>> THEN 0
    ELSE Count(tokenize(IF inTitle THEN Head(rs).title ELSE Head(rs).description), tk)
         + Occurs(Tail(rs), tk, inTitle)

\* The score C9 gives a token: 6 per occurrence in the keyword when it has 3
\* characters or more, stopword or not; 3 per occurrence in a title and 1 per
\* occurrence in a description when it has 3 or more and is no stopword.
ExpectedScore(tk) ==
    (IF Len(tk) >= 3 THEN 6 * Count(baseTokens(keyword), tk) ELSE 0)
    + (IF Len(tk) >= 3 /\ tk \notin stopwords
       THEN 3 * Occurs(results, tk, TRUE) + Occurs(results, tk, FALSE)
       ELSE 0)

RECURSIVE TokensOf(_)
TokensOf(rs) ==
    IF rs = <<>> THEN {}
    ELSE Range(tokenize(Head(rs).title)) \cup Range(tokenize(Head(rs).description))
         \cup TokensOf(Tail(rs))

\* C9: the scores of the answer are those weights, a token is listed when its
\* score is positive, and the keyword "the app" without competitors gives
\* exactly the: 6 and app: 6.
C9_SeedExemptFromStopwords ==
    \A k \in Responses(200) :
        LET sug == sent[k].suggestions
            listed == {sug[j].keyword : j \in 1..Len(sug)}
            all == Range(baseTokens(keyword)) \cup TokensOf(results) \cup listed
        IN  /\ \A j \in 1..Len(sug) : sug[j].score = ExpectedScore(sug[j].keyword)
            /\ \A tk \in all : tk \in listed <=> ExpectedScore(tk) > 0
            /\ Cardinality(listed) = Len(sug)
            /\ (keyword = KwTheApp /\ results = <<>>) =>
                  {<<sug[j].keyword, sug[j].score>> : j \in 1..Len(sug)}
                     = {<<WordThe, 6>>, <<WordApp, 6>>}

\* C9's case: the keyword "the app", no competitor, answered.
C9_Witness ==
    /\ Responses(200) # {}
    /\ keyword = KwTheApp
    /\ results = <<>>
    /\ Len(sent[1].suggestions) = 2

\* C10: at most one detail page is open at any time.
C10_OneDetailPageOpen == Cardinality(detailPages) <= 1

====
